---------------------------- MODULE Spec2Model ----------------------------
(***************************************************************************)
(* A model of the chunking and job-polling core of the Reddit-to-TikTok    *)
(* converter: TextProcessor.chunk_text and _process_text_in_chunks         *)
(* (text_processor.py), SubtitleGenerator._add_subtitles_chunked,          *)
(* _add_subtitles_single, _calculate_timeout and _wait_for_processing      *)
(* (subtitle_generator.py), TTSGenerator._generate_long_audio              *)
(* (tts_generator.py), the three entry points that choose between the      *)
(* single and the chunked path, and TikTokUploader._create_description     *)
(* (tiktok_uploader.py).                                                   *)
(*                                                                         *)
(* Strings are sequences of one-character strings.  Time is counted in     *)
(* whole seconds.  tiktoken is a library outside the repository: the       *)
(* token count of a text is modelled as one token per character.           *)
(***************************************************************************)
EXTENDS Integers, Sequences, FiniteSets, TLC

VARIABLES
    \* TextProcessor.chunk_text
    text,                  \* the argument text
    max_chunk_size,        \* the argument max_chunk_size
    chunks,                \* the returned list of chunks
    cpc,                   \* "call" before the call, "returned" after it
    \* SubtitleGenerator._add_subtitles_chunked, step 1 (splitting)
    duration,              \* video.duration
    chunk_duration,        \* the argument chunk_duration
    num_chunks,            \* line 129
    segments,              \* the (start_time, end_time) pairs cut so far
    spc,                   \* "start", "split", "done"
    \* SubtitleGenerator._add_subtitles_single and _wait_for_processing
    jpc,                   \* "upload", "create_task", "wait", "download", "returned"
    max_wait_minutes,      \* the argument max_wait_minutes
    elapsed_time,          \* line 313
    consecutive_failures,  \* line 315
    wait_ret,              \* value returned by _wait_for_processing
    single_ret,            \* value returned by _add_subtitles_single
    exit_kind,             \* history: the return statement the Job left by
    status_requests,       \* history: status requests issued for this Job
    last_poll,             \* history: outcome of the latest status request
    last_wait,             \* history: length of the latest sleep
    all_pending,           \* history: every status request so far reported pending
    prev_job,              \* history: exit_kind and returned values of the previous Job
    upload_requests,       \* history: upload requests issued for this Job
    task_requests,         \* history: task-creation requests issued for this Job
    download_requests,     \* history: download requests issued for this Job
    \* SubtitleGenerator._calculate_timeout
    video_seconds,         \* clip.duration, in seconds
    timeout_minutes,       \* the value returned
    tpc,                   \* "call", then "computed" (line 235) or "default" (lines 238, 241)
    \* SubtitleGenerator._add_subtitles_chunked, steps 2 and 3
    ppc,                   \* "split", "process", "merge", "returned"
    cidx,                  \* the loop index i of line 161
    chunk_state,           \* history: per chunk "todo", "inflight", "subtitled", "original"
    successful_chunks,     \* line 160: the files handed to the merge
    temp_dir,              \* temp_subtitle_chunks exists
    merge_input,           \* history: the files the merge read
    chunked_ret,           \* value returned by _add_subtitles_chunked
    cancelled,             \* history: the run was interrupted (KeyboardInterrupt)
    \* TTSGenerator._generate_long_audio
    max_chars,             \* the argument max_chars of _split_text_into_chunks
    tts_chunks,            \* line 75
    audio_files,           \* line 76
    tts_disk,              \* the temp_chunk_<i>.mp3 files on disk
    tts_failed,            \* history: the chunks whose speech request failed
    tts_ret,               \* value returned by _generate_long_audio
    tts_pc,                \* "split", "loop", "combine", "returned"
    \* TextProcessor._process_text_in_chunks
    processed_chunks,      \* line 174
    text_fell_back,        \* history: the chunks whose rewrite failed
    final_text,            \* line 194
    xpc,                   \* "chunk", "loop", "returned"
    \* SubtitleGenerator._wait_for_processing, continued
    errors_separated,      \* history: no two status requests in a row raised
    recent_polls,          \* history: outcomes of the last 5 status requests
    \* process_text_for_narration, generate_audio, add_subtitles
    unit_kind,             \* "text", "speech" or "video"
    unit_size,             \* tokens, characters or seconds of the unit
    unit_ok,               \* the video file exists and the API key is set
    moviepy_available,     \* MOVIEPY_AVAILABLE
    route,                 \* "undecided", "none", "single", "chunked", "fallback"
    remote_jobs,           \* history: remote jobs started on the single path
    chunker_invoked,       \* history: the chunked path was entered
    \* TikTokUploader._create_description
    desc_len,              \* len(description)
    hashtags,              \* the argument hashtags
    full_len,              \* len(full_description) of the value returned
    trimmed,               \* history: the branch of line 86 was taken
    dpc,                   \* "call", "returned"
    \* SubtitleGenerator._add_subtitles_chunked, step 3 (merge)
    clips_open             \* clips opened on line 178 and not closed

chunkVars == <<text, max_chunk_size, chunks, cpc>>
splitVars == <<duration, chunk_duration, num_chunks, segments, spc>>
histVars == <<errors_separated, recent_polls>>
jobVars == <<jpc, max_wait_minutes, elapsed_time, consecutive_failures, wait_ret,
             single_ret, exit_kind, status_requests, last_poll, last_wait,
             all_pending, prev_job, upload_requests, task_requests,
             download_requests, errors_separated, recent_polls>>
reqVars == <<upload_requests, task_requests, download_requests>>
timeoutVars == <<video_seconds, timeout_minutes, tpc>>
pipeVars == <<ppc, cidx, chunk_state, successful_chunks, temp_dir, merge_input,
              chunked_ret, cancelled>>
ttsVars == <<max_chars, tts_chunks, audio_files, tts_disk, tts_failed, tts_ret, tts_pc>>
textPipeVars == <<processed_chunks, text_fell_back, final_text, xpc>>
routeVars == <<unit_kind, unit_size, unit_ok, moviepy_available, route, remote_jobs,
               chunker_invoked>>
descVars == <<desc_len, hashtags, full_len, trimmed, dpc>>
restVars == <<routeVars, descVars, clips_open>>
extVars == <<timeoutVars, pipeVars, ttsVars, textPipeVars, restVars>>
vars == <<chunkVars, splitVars, jobVars, extVars>>

-----------------------------------------------------------------------------
(* Bounds of the model *)

MaxLen == 6
MaxLimit == 3

NL == "\n"
Alphabet == {"a", ".", " ", NL}
Whitespace == {" ", NL}

RECURSIVE StringsOfLen(_)
StringsOfLen(n) ==
    IF n = 0 THEN {<<>>}
    ELSE {Append(s, c) : s \in StringsOfLen(n - 1), c \in Alphabet}

Texts == UNION {StringsOfLen(n) : n \in 0..MaxLen}

-----------------------------------------------------------------------------
(* Python's str operations, on sequences of characters *)

Min(a, b) == IF a <= b THEN a ELSE b

\* s[i:] (0-based i)
Drop(s, i) == SubSeq(s, i + 1, Len(s))

StartsWith(s, sep) == Len(s) >= Len(sep) /\ SubSeq(s, 1, Len(sep)) = sep

\* str.split(sep) for a non-empty sep: left to right, non-overlapping
RECURSIVE SplitFrom(_, _, _)
SplitFrom(s, sep, piece) ==
    IF s = <<>> THEN <<piece>>
    ELSE IF StartsWith(s, sep)
         THEN <<piece>> \o SplitFrom(Drop(s, Len(sep)), sep, <<>>)
         ELSE SplitFrom(Drop(s, 1), sep, Append(piece, s[1]))

split(s, sep) == SplitFrom(s, sep, <<>>)

RECURSIVE lstrip(_)
lstrip(s) == IF s # <<>> /\ s[1] \in Whitespace THEN lstrip(Drop(s, 1)) ELSE s

RECURSIVE rstrip(_)
rstrip(s) ==
    IF s # <<>> /\ s[Len(s)] \in Whitespace THEN rstrip(SubSeq(s, 1, Len(s) - 1)) ELSE s

\* str.strip()
strip(s) == lstrip(rstrip(s))

ParagraphSep == <<NL, NL>>
SentenceSep == <<".", " ">>

-----------------------------------------------------------------------------
(* TextProcessor *)

count_tokens(s) == Len(s)

\* lines 52-61: one sentence of an oversized paragraph; st = [chunks, temp_chunk].
\* A sentence that alone exceeds the limit is dropped instead of appended.
SentenceStepDropping(st, sentence, max) ==
    LET test_sentence == IF st.temp_chunk # <<>>
                         THEN st.temp_chunk \o SentenceSep \o sentence
                         ELSE sentence
    IN IF count_tokens(test_sentence) > max
       THEN IF st.temp_chunk # <<>>
            THEN [chunks |-> Append(st.chunks, strip(st.temp_chunk)),
                  temp_chunk |-> sentence]
            ELSE st
       ELSE [chunks |-> st.chunks, temp_chunk |-> test_sentence]

\* lines 52-61: one sentence of an oversized paragraph; st = [chunks, temp_chunk]
SentenceStep(st, sentence, max) ==
    LET test_sentence == IF st.temp_chunk # <<>>
                         THEN st.temp_chunk \o SentenceSep \o sentence
                         ELSE sentence
    IN IF count_tokens(test_sentence) > max
       THEN IF st.temp_chunk # <<>>
            THEN [chunks |-> Append(st.chunks, strip(st.temp_chunk)),
                  temp_chunk |-> sentence]
            ELSE \* single sentence too long, force split
                 [chunks |-> Append(st.chunks, sentence),
                  temp_chunk |-> st.temp_chunk]
       ELSE [chunks |-> st.chunks, temp_chunk |-> test_sentence]

\* lines 50-51: the loop over the sentences of one paragraph, from sentence i on
RECURSIVE SentenceLoop(_, _, _, _)
SentenceLoop(sentences, i, st, max) ==
    IF i > Len(sentences) THEN st
    ELSE SentenceLoop(sentences, i + 1, SentenceStep(st, sentences[i], max), max)

\* lines 42-64: one paragraph; st = [chunks, current_chunk]
ParagraphStep(st, paragraph, max) ==
    LET test_chunk == IF st.current_chunk # <<>>
                      THEN st.current_chunk \o ParagraphSep \o paragraph
                      ELSE paragraph
    IN IF count_tokens(test_chunk) > max
       THEN IF st.current_chunk # <<>>
            THEN [chunks |-> Append(st.chunks, strip(st.current_chunk)),
                  current_chunk |-> paragraph]
            ELSE \* single paragraph is too long, split by sentences
                 LET r == SentenceLoop(split(paragraph, SentenceSep), 1,
                              [chunks |-> st.chunks, temp_chunk |-> <<>>], max)
                 IN [chunks |-> r.chunks, current_chunk |-> r.temp_chunk]
       ELSE [chunks |-> st.chunks, current_chunk |-> test_chunk]

\* line 40: the loop over the paragraphs, from paragraph i on
RECURSIVE ParagraphLoop(_, _, _, _)
ParagraphLoop(paragraphs, i, st, max) ==
    IF i > Len(paragraphs) THEN st
    ELSE ParagraphLoop(paragraphs, i + 1, ParagraphStep(st, paragraphs[i], max), max)

\* line 33 with < in place of <=
FitsInOneChunkStrict(t, max) == count_tokens(t) < max

\* line 33: the text fits in one chunk
FitsInOneChunk(t, max) == count_tokens(t) <= max

chunk_text(t, max) ==
    IF FitsInOneChunk(t, max) THEN <<t>>
    ELSE LET r == ParagraphLoop(split(t, ParagraphSep), 1,
                      [chunks |-> <<>>, current_chunk |-> <<>>], max)
         IN IF r.current_chunk # <<>>
            THEN Append(r.chunks, strip(r.current_chunk))
            ELSE r.chunks

-----------------------------------------------------------------------------
(* The specification of the chunker: a call of chunk_text on any text *)

NoJob == [kind |-> "none", wait_ret |-> "unset", single_ret |-> "unset"]

IdleSplit ==
    /\ duration = 0 /\ chunk_duration = 0 /\ num_chunks = 0
    /\ segments = <<>> /\ spc = "off"

IdleJob ==
    /\ jpc = "off" /\ max_wait_minutes = 0 /\ elapsed_time = 0
    /\ consecutive_failures = 0 /\ wait_ret = "unset" /\ single_ret = "unset"
    /\ exit_kind = "none" /\ status_requests = 0 /\ last_poll = "none"
    /\ last_wait = 0 /\ all_pending = TRUE /\ prev_job = NoJob
    /\ upload_requests = 0 /\ task_requests = 0 /\ download_requests = 0
    /\ errors_separated = TRUE
    /\ recent_polls = <<>>

IdleRoute ==
    /\ unit_kind = "none" /\ unit_size = 0 /\ unit_ok = TRUE
    /\ moviepy_available = TRUE /\ route = "off" /\ remote_jobs = 0
    /\ chunker_invoked = FALSE

IdleDesc ==
    /\ desc_len = 0 /\ hashtags = <<>> /\ full_len = 0 /\ trimmed = FALSE
    /\ dpc = "off"

IdleRest == IdleRoute /\ IdleDesc /\ clips_open = FALSE

IdleTimeout ==
    /\ video_seconds = 0 /\ timeout_minutes = 0 /\ tpc = "off"

IdlePipe ==
    /\ ppc = "off" /\ cidx = 0 /\ chunk_state = <<>> /\ successful_chunks = <<>>
    /\ temp_dir = FALSE /\ merge_input = <<>> /\ chunked_ret = "unset"
    /\ cancelled = FALSE

IdleTts ==
    /\ max_chars = 0 /\ tts_chunks = <<>> /\ audio_files = <<>> /\ tts_disk = {}
    /\ tts_failed = {} /\ tts_ret = "unset" /\ tts_pc = "off"

IdleTextPipe ==
    /\ processed_chunks = <<>> /\ text_fell_back = {} /\ final_text = <<>>
    /\ xpc = "off"

IdleChunk ==
    /\ text = <<>> /\ max_chunk_size = 0 /\ chunks = <<>> /\ cpc = "off"

ChunkInit ==
    /\ text \in Texts
    /\ max_chunk_size \in 1..MaxLimit
    /\ chunks = <<>>
    /\ cpc = "call"
    /\ IdleSplit
    /\ IdleJob
    /\ IdleTimeout /\ IdlePipe /\ IdleTts /\ IdleTextPipe
    /\ IdleRest

ChunkText ==
    /\ cpc = "call"
    /\ chunks' = chunk_text(text, max_chunk_size)
    /\ cpc' = "returned"
    /\ UNCHANGED <<text, max_chunk_size, splitVars, jobVars, extVars>>

ChunkNext == ChunkText

ChunkSpec == ChunkInit /\ [][ChunkNext]_vars

-----------------------------------------------------------------------------
(* Properties of chunk_text *)

Contains(s, sep) == Len(split(s, sep)) > 1

\* a single indivisible sentence: no paragraph break and no sentence separator
Indivisible(s) == ~Contains(s, ParagraphSep) /\ ~Contains(s, SentenceSep)

RECURSIVE Flatten(_)
Flatten(ss) == IF ss = <<>> THEN <<>> ELSE Head(ss) \o Flatten(Tail(ss))

\* the pieces of s between "\n\n" and ". " separators, in order
Pieces(s) ==
    LET paragraphs == split(s, ParagraphSep)
    IN Flatten([i \in 1..Len(paragraphs) |-> split(paragraphs[i], SentenceSep)])

NonEmpty(ss) == SelectSeq(ss, LAMBDA x : x # <<>>)

\* the sentences of s: its pieces modulo surrounding whitespace, the empty
\* ones left out
Sentences(s) == NonEmpty([i \in 1..Len(Pieces(s)) |-> strip(Pieces(s)[i])])

SentencesOfChunks(cs) == Flatten([i \in 1..Len(cs) |-> Sentences(cs[i])])

\* s without the whitespace and the "." characters at its end
RECURSIVE rstripDots(_)
rstripDots(s) ==
    IF s # <<>> /\ s[Len(s)] \in (Whitespace \cup {"."})
    THEN rstripDots(SubSeq(s, 1, Len(s) - 1))
    ELSE s

\* the sentences of s modulo surrounding whitespace and trailing "."
SentencesModDots(s) ==
    NonEmpty([i \in 1..Len(Pieces(s)) |-> lstrip(rstripDots(Pieces(s)[i]))])

SentencesModDotsOfChunks(cs) ==
    Flatten([i \in 1..Len(cs) |-> SentencesModDots(cs[i])])

\* cs joined with seps[i] between cs[i] and cs[i+1]
RECURSIVE JoinWith(_, _)
JoinWith(cs, seps) ==
    IF cs = <<>> THEN <<>>
    ELSE IF Len(cs) = 1 THEN cs[1]
    ELSE cs[1] \o seps[1] \o JoinWith(Tail(cs), Tail(seps))

\* C1: every chunk is within max_chunk_size unless it is a forced chunk, a
\* single indivisible sentence (no paragraph break, no sentence separator
\* inside it) that alone exceeds the limit.
C1_ChunkWithinLimitUnlessForced ==
    cpc = "returned" =>
        \A i \in 1..Len(chunks) :
            count_tokens(chunks[i]) > max_chunk_size => Indivisible(chunks[i])

\* C2: for a text over the limit, the chunks joined in order, with a
\* paragraph break or a sentence separator put back at each split,
\* reproduce the text exactly.  (chunk_text records no separators: the
\* formula asks only that some choice of separators reproduces the text.)
C2_RoundTrip ==
    (cpc = "returned" /\ count_tokens(text) > max_chunk_size) =>
        \E seps \in [1..(Len(chunks) - 1) -> {ParagraphSep, SentenceSep}] :
            JoinWith(chunks, seps) = text

C4_UnderLimitOneChunk ==
    (cpc = "returned" /\ count_tokens(text) <= max_chunk_size) => chunks = <<text>>

\* C4 witness: a text of exactly max_chunk_size tokens with whitespace at
\* its ends came back as one unchanged chunk.
C4_Witness ==
    /\ cpc = "returned"
    /\ count_tokens(text) = max_chunk_size
    /\ strip(text) # text
    /\ chunks = <<text>>

-----------------------------------------------------------------------------
(* SubtitleGenerator._add_subtitles_chunked, step 1: the time segments *)

MaxDuration == 12
MaxChunkDuration == 5

\* line 129 without the chunk for the remainder
NumChunksFloor(d, c) == d \div c

\* line 129: int(duration // chunk_duration) + (1 if duration % chunk_duration > 0 else 0)
NumChunks(d, c) == (d \div c) + (IF d % c > 0 THEN 1 ELSE 0)

\* line 139 without the min
SegmentEndUncut(i, d, c) == (i + 1) * c

\* line 138: start_time of chunk i (0-based)
SegmentStart(i, c) == i * c

\* line 139: end_time of chunk i (0-based)
SegmentEnd(i, d, c) == Min((i + 1) * c, d)

SplitInit ==
    /\ duration \in 1..MaxDuration
    /\ chunk_duration \in 1..MaxChunkDuration
    /\ num_chunks = 0
    /\ segments = <<>>
    /\ spc = "start"
    /\ IdleChunk
    /\ IdleJob
    /\ IdleTimeout /\ IdlePipe /\ IdleTts /\ IdleTextPipe
    /\ IdleRest

\* lines 127-134
OpenVideo ==
    /\ spc = "start"
    /\ num_chunks' = NumChunks(duration, chunk_duration)
    /\ spc' = "split"
    /\ UNCHANGED <<duration, chunk_duration, segments, chunkVars, jobVars, extVars>>

\* lines 137-157: one iteration of the splitting loop
CutChunk ==
    /\ spc = "split"
    /\ Len(segments) < num_chunks
    /\ LET i == Len(segments)
       IN segments' = Append(segments,
                          <<SegmentStart(i, chunk_duration),
                            SegmentEnd(i, duration, chunk_duration)>>)
    /\ UNCHANGED <<duration, chunk_duration, num_chunks, spc, chunkVars, jobVars, extVars>>

\* line 137: the loop ends
SplitDone ==
    /\ spc = "split"
    /\ Len(segments) >= num_chunks
    /\ spc' = "done"
    /\ UNCHANGED <<duration, chunk_duration, num_chunks, segments, chunkVars, jobVars, extVars>>

SplitNext == OpenVideo \/ CutChunk \/ SplitDone

SplitSpec == SplitInit /\ [][SplitNext]_vars

SegmentDuration(seg) == seg[2] - seg[1]

RECURSIVE SumDurations(_)
SumDurations(segs) ==
    IF segs = <<>> THEN 0 ELSE SegmentDuration(Head(segs)) + SumDurations(Tail(segs))

\* ceil(d / c)
CeilDiv(d, c) == (d + c - 1) \div c

\* C5: the segments cut are [i*c, min((i+1)*c, D)] for i = 0..N-1 with
\* N = ceil(D/c): contiguous from 0 to D without gap or overlap, each of
\* duration > 0 and <= c, only the final one possibly shorter than c, and
\* their durations sum to D.
C5_SegmentsPartitionDuration ==
    spc = "done" =>
        /\ Len(segments) = CeilDiv(duration, chunk_duration)
        /\ \A k \in 1..Len(segments) :
              /\ segments[k] = <<(k - 1) * chunk_duration,
                                 Min(k * chunk_duration, duration)>>
              /\ SegmentDuration(segments[k]) > 0
              /\ SegmentDuration(segments[k]) <= chunk_duration
              /\ k < Len(segments) => SegmentDuration(segments[k]) = chunk_duration
              /\ k < Len(segments) => segments[k + 1][1] = segments[k][2]
        /\ segments[1][1] = 0
        /\ segments[Len(segments)][2] = duration
        /\ SumDurations(segments) = duration

\* C5 witness: a video cut into three or more segments, the final one
\* shorter than chunk_duration.
C5_Witness ==
    /\ spc = "done"
    /\ Len(segments) >= 3
    /\ SegmentDuration(segments[Len(segments)]) < chunk_duration
    /\ SumDurations(segments) = duration

-----------------------------------------------------------------------------
(* SubtitleGenerator._add_subtitles_single and _wait_for_processing: one    *)
(* Job per call, the calls following one another as in the loop over the    *)
(* chunks of _add_subtitles_chunked (lines 161-171).  One action is one     *)
(* remote request with the code that handles its outcome.                   *)

MaxWaitMinutes == 2

check_interval == 10
MaxRetryDelay == 30
MaxConsecutiveFailures == 5

\* line 311
max_wait_seconds == max_wait_minutes * 60

\* line 317 with <= in place of <
LoopGuardInclusive == elapsed_time <= max_wait_seconds

\* line 317: the condition of the polling loop
LoopGuard == elapsed_time < max_wait_seconds

\* line 367 giving up one failure early
GiveUpEarly(failures) == failures >= MaxConsecutiveFailures - 1

\* line 367
GiveUp(failures) == failures >= MaxConsecutiveFailures

\* the outcomes of the last MaxConsecutiveFailures status requests
Remember(h, outcome) ==
    LET all == Append(h, outcome)
    IN IF Len(all) <= MaxConsecutiveFailures THEN all
       ELSE SubSeq(all, Len(all) - MaxConsecutiveFailures + 1, Len(all))

\* line 372 without the cap
retry_delay_uncapped(failures) == check_interval * failures

\* line 372
retry_delay(failures) == Min(MaxRetryDelay, check_interval * failures)

JobInit ==
    /\ jpc = "upload"
    /\ max_wait_minutes \in 1..MaxWaitMinutes
    /\ elapsed_time = 0
    /\ consecutive_failures = 0
    /\ wait_ret = "unset"
    /\ single_ret = "unset"
    /\ exit_kind = "none"
    /\ status_requests = 0
    /\ last_poll = "none"
    /\ last_wait = 0
    /\ all_pending = TRUE
    /\ prev_job = NoJob
    /\ upload_requests = 0
    /\ task_requests = 0
    /\ download_requests = 0
    /\ errors_separated = TRUE
    /\ recent_polls = <<>>
    /\ IdleChunk
    /\ IdleSplit
    /\ IdleTimeout /\ IdlePipe /\ IdleTts /\ IdleTextPipe
    /\ IdleRest

\* _add_subtitles_single returns: kind names the return statement taken
Return(kind, wret, sret) ==
    /\ jpc' = "returned"
    /\ exit_kind' = kind
    /\ wait_ret' = wret
    /\ single_ret' = sret

\* lines 88, 243-267: the upload succeeds
UploadOk ==
    /\ jpc = "upload"
    /\ UNCHANGED histVars
    /\ upload_requests' = upload_requests + 1
    /\ UNCHANGED <<task_requests, download_requests>>
    /\ jpc' = "create_task"
    /\ UNCHANGED <<max_wait_minutes, elapsed_time, consecutive_failures, wait_ret,
                   single_ret, exit_kind, status_requests, last_poll, last_wait,
                   all_pending, prev_job, chunkVars, splitVars, extVars>>

\* lines 88-90 with the failed upload attempted a second time
UploadFailRetriesOnce ==
    /\ jpc = "upload"
    /\ UNCHANGED histVars
    /\ upload_requests' = upload_requests + 1
    /\ UNCHANGED <<task_requests, download_requests>>
    /\ IF upload_requests = 0
       THEN UNCHANGED <<jpc, exit_kind, wait_ret, single_ret>>
       ELSE Return("upload_failed", wait_ret, "None")
    /\ UNCHANGED <<max_wait_minutes, elapsed_time, consecutive_failures,
                   status_requests, last_poll, last_wait, all_pending, prev_job,
                   chunkVars, splitVars, extVars>>

\* lines 88-90, 269-273: the upload fails
UploadFail ==
    /\ jpc = "upload"
    /\ UNCHANGED histVars
    /\ upload_requests' = upload_requests + 1
    /\ UNCHANGED <<task_requests, download_requests>>
    /\ Return("upload_failed", wait_ret, "None")
    /\ UNCHANGED <<max_wait_minutes, elapsed_time, consecutive_failures,
                   status_requests, last_poll, last_wait, all_pending, prev_job,
                   chunkVars, splitVars, extVars>>

\* lines 93, 275-299, 98, 311-315: the task is created and the wait begins
CreateTaskOk ==
    /\ jpc = "create_task"
    /\ UNCHANGED histVars
    /\ task_requests' = task_requests + 1
    /\ UNCHANGED <<upload_requests, download_requests>>
    /\ jpc' = "wait"
    /\ elapsed_time' = 0
    /\ consecutive_failures' = 0
    /\ UNCHANGED <<max_wait_minutes, wait_ret, single_ret, exit_kind,
                   status_requests, last_poll, last_wait, all_pending, prev_job,
                   chunkVars, splitVars, extVars>>

\* lines 93-95, 301-303: the task creation fails
CreateTaskFail ==
    /\ jpc = "create_task"
    /\ UNCHANGED histVars
    /\ task_requests' = task_requests + 1
    /\ UNCHANGED <<upload_requests, download_requests>>
    /\ Return("task_failed", wait_ret, "None")
    /\ UNCHANGED <<max_wait_minutes, elapsed_time, consecutive_failures,
                   status_requests, last_poll, last_wait, all_pending, prev_job,
                   chunkVars, splitVars, extVars>>

\* lines 344-348: the status request reports 'completed' with a downloadUrl
PollCompleted ==
    /\ jpc = "wait"
    /\ UNCHANGED errors_separated
    /\ recent_polls' = Remember(recent_polls, "completed")
    /\ UNCHANGED reqVars
    /\ LoopGuard
    /\ status_requests' = status_requests + 1
    /\ last_poll' = "completed"
    /\ all_pending' = FALSE
    /\ wait_ret' = "url"
    /\ jpc' = "download"
    /\ UNCHANGED <<max_wait_minutes, elapsed_time, consecutive_failures, single_ret,
                   exit_kind, last_wait, prev_job, chunkVars, splitVars, extVars>>

\* lines 344-351, 99-100: 'completed' without a downloadUrl
PollCompletedNoUrl ==
    /\ jpc = "wait"
    /\ UNCHANGED errors_separated
    /\ recent_polls' = Remember(recent_polls, "completed_no_url")
    /\ UNCHANGED reqVars
    /\ LoopGuard
    /\ status_requests' = status_requests + 1
    /\ last_poll' = "completed_no_url"
    /\ all_pending' = FALSE
    /\ Return("no_url", "None", "None")
    /\ UNCHANGED <<max_wait_minutes, elapsed_time, consecutive_failures, last_wait,
                   prev_job, chunkVars, splitVars, extVars>>

\* lines 352-355 taken for still processing: the loop sleeps and polls again
PollFailedKeepsPolling ==
    /\ jpc = "wait"
    /\ UNCHANGED errors_separated
    /\ recent_polls' = Remember(recent_polls, "failed")
    /\ UNCHANGED reqVars
    /\ LoopGuard
    /\ status_requests' = status_requests + 1
    /\ last_poll' = "failed"
    /\ all_pending' = FALSE
    /\ consecutive_failures' = 0
    /\ last_wait' = check_interval
    /\ elapsed_time' = elapsed_time + check_interval
    /\ UNCHANGED <<jpc, max_wait_minutes, wait_ret, single_ret, exit_kind, prev_job,
                   chunkVars, splitVars, extVars>>

\* lines 352-355, 99-100: the status request reports 'failed'
PollFailed ==
    /\ jpc = "wait"
    /\ UNCHANGED errors_separated
    /\ recent_polls' = Remember(recent_polls, "failed")
    /\ UNCHANGED reqVars
    /\ LoopGuard
    /\ status_requests' = status_requests + 1
    /\ last_poll' = "failed"
    /\ all_pending' = FALSE
    /\ Return("failed", "None", "None")
    /\ UNCHANGED <<max_wait_minutes, elapsed_time, consecutive_failures, last_wait,
                   prev_job, chunkVars, splitVars, extVars>>

\* lines 356-360 without the sleep: the elapsed counter is left alone
PollPendingNoSleep ==
    /\ jpc = "wait"
    /\ UNCHANGED errors_separated
    /\ recent_polls' = Remember(recent_polls, "pending")
    /\ UNCHANGED reqVars
    /\ LoopGuard
    /\ status_requests' = status_requests + 1
    /\ last_poll' = "pending"
    /\ consecutive_failures' = 0
    /\ UNCHANGED <<jpc, max_wait_minutes, wait_ret, single_ret, exit_kind, last_wait,
                   elapsed_time, all_pending, prev_job, chunkVars, splitVars, extVars>>

\* lines 356-360 without line 358: the failure counter is not reset
PollPendingKeepsFailures ==
    /\ jpc = "wait"
    /\ UNCHANGED errors_separated
    /\ recent_polls' = Remember(recent_polls, "pending")
    /\ UNCHANGED reqVars
    /\ LoopGuard
    /\ status_requests' = status_requests + 1
    /\ last_poll' = "pending"
    /\ last_wait' = check_interval
    /\ elapsed_time' = elapsed_time + check_interval
    /\ UNCHANGED <<jpc, max_wait_minutes, wait_ret, single_ret, exit_kind,
                   consecutive_failures, all_pending, prev_job, chunkVars,
                   splitVars, extVars>>

\* lines 356-360: any other status, still processing
PollPending ==
    /\ jpc = "wait"
    /\ UNCHANGED errors_separated
    /\ recent_polls' = Remember(recent_polls, "pending")
    /\ UNCHANGED reqVars
    /\ LoopGuard
    /\ status_requests' = status_requests + 1
    /\ last_poll' = "pending"
    /\ consecutive_failures' = 0
    /\ last_wait' = check_interval
    /\ elapsed_time' = elapsed_time + check_interval
    /\ UNCHANGED <<jpc, max_wait_minutes, wait_ret, single_ret, exit_kind,
                   all_pending, prev_job, chunkVars, splitVars, extVars>>

\* lines 362-374, 99-100: the status request raises
PollError ==
    /\ jpc = "wait"
    /\ errors_separated' = (errors_separated /\ last_poll # "error")
    /\ recent_polls' = Remember(recent_polls, "error")
    /\ UNCHANGED reqVars
    /\ LoopGuard
    /\ status_requests' = status_requests + 1
    /\ last_poll' = "error"
    /\ all_pending' = FALSE
    /\ consecutive_failures' = consecutive_failures + 1
    /\ IF GiveUp(consecutive_failures')
       THEN /\ Return("polling_error", "None", "None")
            /\ UNCHANGED <<elapsed_time, last_wait>>
       ELSE /\ last_wait' = retry_delay(consecutive_failures')
            /\ elapsed_time' = elapsed_time + retry_delay(consecutive_failures')
            /\ UNCHANGED <<jpc, wait_ret, single_ret, exit_kind>>
    /\ UNCHANGED <<max_wait_minutes, prev_job, chunkVars, splitVars, extVars>>

\* lines 317, 376-378 with the loop ending one check_interval early
WaitTimeoutEarly ==
    /\ jpc = "wait"
    /\ UNCHANGED histVars
    /\ UNCHANGED reqVars
    /\ elapsed_time >= max_wait_seconds - check_interval
    /\ Return("timeout", "None", "None")
    /\ UNCHANGED <<max_wait_minutes, elapsed_time, consecutive_failures,
                   status_requests, last_poll, last_wait, all_pending, prev_job,
                   chunkVars, splitVars, extVars>>

\* lines 317, 376-378, 99-100: the loop ends by its condition
WaitTimeout ==
    /\ jpc = "wait"
    /\ UNCHANGED histVars
    /\ UNCHANGED reqVars
    /\ ~LoopGuard
    /\ Return("timeout", "None", "None")
    /\ UNCHANGED <<max_wait_minutes, elapsed_time, consecutive_failures,
                   status_requests, last_poll, last_wait, all_pending, prev_job,
                   chunkVars, splitVars, extVars>>

\* lines 103-106, 380-396: the download succeeds
DownloadOk ==
    /\ jpc = "download"
    /\ UNCHANGED histVars
    /\ download_requests' = download_requests + 1
    /\ UNCHANGED <<upload_requests, task_requests>>
    /\ Return("completed", wait_ret, "output_file")
    /\ UNCHANGED <<max_wait_minutes, elapsed_time, consecutive_failures,
                   status_requests, last_poll, last_wait, all_pending, prev_job,
                   chunkVars, splitVars, extVars>>

\* lines 103-108, 398-400: the download fails
DownloadFail ==
    /\ jpc = "download"
    /\ UNCHANGED histVars
    /\ download_requests' = download_requests + 1
    /\ UNCHANGED <<upload_requests, task_requests>>
    /\ Return("download_failed", wait_ret, "None")
    /\ UNCHANGED <<max_wait_minutes, elapsed_time, consecutive_failures,
                   status_requests, last_poll, last_wait, all_pending, prev_job,
                   chunkVars, splitVars, extVars>>

\* lines 161-164, 84: the caller's loop runs the Job of the next chunk
NextJob ==
    /\ jpc = "returned"
    /\ prev_job' = [kind |-> exit_kind, wait_ret |-> wait_ret,
                    single_ret |-> single_ret]
    /\ jpc' = "upload"
    /\ max_wait_minutes' \in 1..MaxWaitMinutes
    /\ elapsed_time' = 0
    /\ consecutive_failures' = 0
    /\ wait_ret' = "unset"
    /\ single_ret' = "unset"
    /\ exit_kind' = "none"
    /\ status_requests' = 0
    /\ last_poll' = "none"
    /\ last_wait' = 0
    /\ all_pending' = TRUE
    /\ upload_requests' = 0
    /\ task_requests' = 0
    /\ download_requests' = 0
    /\ errors_separated' = TRUE
    /\ recent_polls' = <<>>
    /\ UNCHANGED <<chunkVars, splitVars, extVars>>

JobNext ==
    \/ UploadOk \/ UploadFail \/ CreateTaskOk \/ CreateTaskFail
    \/ PollCompleted \/ PollCompletedNoUrl \/ PollFailed \/ PollPending
    \/ PollError \/ WaitTimeout \/ DownloadOk \/ DownloadFail \/ NextJob

JobSpec == JobInit /\ [][JobNext]_vars

\* every request returns (line 322 sets a timeout) and every sleep ends, so
\* the Job always takes its next step
JobLiveSpec == JobSpec /\ WF_vars(JobNext)

-----------------------------------------------------------------------------
(* Properties of the Job *)

\* this step issues a status request
StatusRequestIssued == status_requests' = status_requests + 1

\* the three ways _wait_for_processing fails that the caller is to tell apart
WaitFailureKinds == {"failed", "timeout", "polling_error"}

\* C6: a status poll reporting 'completed' with a download URL ends the
\* loop returning the URL, a poll reporting 'failed' ends it returning
\* failure, and after either no further status request is issued for the
\* Job: a failed Job is never polled again.
C6_TerminalStatusEndsPolling ==
    [][/\ (StatusRequestIssued /\ last_poll' = "completed") =>
              (wait_ret' = "url" /\ jpc' = "download")
       /\ (StatusRequestIssued /\ last_poll' = "failed") =>
              (wait_ret' = "None" /\ jpc' = "returned" /\ exit_kind' = "failed")
       /\ (last_poll \in {"completed", "failed"}) =>
              (~StatusRequestIssued /\ (jpc' # "wait"))]_vars

\* C6 witness: one Job was ended by a 'failed' report after several polls,
\* and a later Job by a 'completed' report whose URL was returned.
C6_Witness ==
    /\ prev_job.kind = "failed"
    /\ last_poll = "completed"
    /\ wait_ret = "url"
    /\ status_requests >= 2

\* C7: while every status poll reports pending, the loop sleeps
\* check_interval seconds after each poll and keeps polling until the
\* elapsed time reaches max_wait_seconds; it then returns the timeout
\* outcome, and no status request is issued once the deadline is reached.
C7_AllPendingTimesOut ==
    [][/\ StatusRequestIssued => elapsed_time < max_wait_seconds
       /\ (jpc = "wait" /\ elapsed_time >= max_wait_seconds) =>
              (jpc' = "returned" /\ exit_kind' = "timeout" /\ wait_ret' = "None")
       /\ (all_pending' /\ jpc' \in {"wait", "returned"}
             /\ exit_kind' \notin {"upload_failed", "task_failed"}) =>
              /\ elapsed_time' = check_interval * status_requests'
              /\ (StatusRequestIssued => last_wait' = check_interval)
              /\ (jpc' = "returned" =>
                     /\ exit_kind' = "timeout"
                     /\ elapsed_time' = max_wait_seconds
                     /\ status_requests' * check_interval = max_wait_seconds)]_vars

\* C7 witness: a Job with a deadline of two minutes or more timed out
\* after nothing but pending polls.
C7_Witness ==
    /\ exit_kind = "timeout"
    /\ all_pending
    /\ max_wait_minutes >= 2
    /\ status_requests * check_interval = max_wait_seconds

\* C8: the value returned lets the caller tell apart a remote failure, a
\* timeout and the polling-error limit: two Jobs that ended in different
\* ones of these never return the same value.
C8_FailureKindsDistinguishable ==
    (/\ jpc = "returned"
     /\ exit_kind \in WaitFailureKinds
     /\ prev_job.kind \in WaitFailureKinds
     /\ exit_kind # prev_job.kind) =>
        (wait_ret # prev_job.wait_ret /\ single_ret # prev_job.single_ret)

\* C9: after the k-th consecutive erroring status request, k = 1..4, the
\* loop waits min(30, 10*k) seconds, a wait never shorter than the one
\* after the error before it; at the 5th it gives up, and no status
\* request follows.
C9_ErrorBackoff ==
    [][/\ (StatusRequestIssued /\ last_poll' = "error") =>
              /\ consecutive_failures' = consecutive_failures + 1
              /\ consecutive_failures' \in 1..5
              /\ (consecutive_failures' <= 4) =>
                     /\ jpc' = "wait"
                     /\ last_wait' = Min(30, 10 * consecutive_failures')
                     /\ elapsed_time' = elapsed_time + last_wait'
                     /\ (last_poll = "error" => last_wait' >= last_wait)
              /\ (consecutive_failures' = 5) =>
                     (jpc' = "returned" /\ exit_kind' = "polling_error")
       /\ (exit_kind = "polling_error") => ~StatusRequestIssued]_vars

\* C9 witness: the loop gave up at the 5th consecutive error, having
\* waited after each of the four before it.
C9_Witness ==
    /\ exit_kind = "polling_error"
    /\ consecutive_failures = 5
    /\ elapsed_time = 10 + 20 + 30 + 30

\* C10 as stated: 5 consecutive polling errors do not terminate the Job,
\* which is still polling after them.
C10_FiveErrorsDoNotTerminate ==
    consecutive_failures = 5 => (jpc = "wait" /\ exit_kind = "none")

\* C10 as amended: up to 4 consecutive polling errors do not terminate the
\* Job; each adds to the elapsed time only the wait that follows it, and a
\* status check that succeeds after them resolves the Job to the remote
\* outcome (or, pending, resets the count and keeps polling).  Only the
\* 5th consecutive error terminates the Job with the polling error.
C10_FewerThanFiveErrorsDoNotTerminate ==
    [][/\ (StatusRequestIssued /\ last_poll' = "error"
             /\ consecutive_failures' <= 4) =>
              /\ jpc' = "wait"
              /\ exit_kind' = "none"
              /\ elapsed_time' - elapsed_time = last_wait'
       /\ (StatusRequestIssued /\ consecutive_failures \in 1..4) =>
              /\ last_poll' = "completed" => (wait_ret' = "url" /\ jpc' = "download")
              /\ last_poll' = "failed" => exit_kind' = "failed"
              /\ last_poll' = "pending" =>
                     /\ consecutive_failures' = 0
                     /\ jpc' = "wait"
                     /\ elapsed_time' = elapsed_time + check_interval
       /\ (exit_kind' = "polling_error" /\ exit_kind # "polling_error") =>
              (consecutive_failures' = 5 /\ last_poll' = "error")]_vars

\* C10 witness: a Job that met 4 consecutive polling errors was then
\* resolved by a 'completed' report.
C10_Witness ==
    /\ consecutive_failures = 4
    /\ last_poll = "completed"
    /\ wait_ret = "url"
    /\ elapsed_time = 10 + 20 + 30 + 30


\* C12: a Job whose upload or task creation failed has returned failure
\* having issued the failing request exactly once, and no status request and
\* no download request is issued for it.
C12_SubmissionFailureNotRetried ==
    /\ exit_kind = "upload_failed" =>
          /\ jpc = "returned" /\ single_ret = "None"
          /\ upload_requests = 1 /\ task_requests = 0
          /\ status_requests = 0 /\ download_requests = 0
    /\ exit_kind = "task_failed" =>
          /\ jpc = "returned" /\ single_ret = "None"
          /\ upload_requests = 1 /\ task_requests = 1
          /\ status_requests = 0 /\ download_requests = 0

\* C12 witness: a Job ended by a failed task creation after a Job ended by a
\* failed upload.
C12_Witness ==
    /\ prev_job.kind = "upload_failed"
    /\ exit_kind = "task_failed"
    /\ task_requests = 1

\* the most status requests one Job may issue: max_wait_minutes*60/10
MaxStatusRequests == max_wait_seconds \div check_interval

\* C26: _wait_for_processing terminates for every sequence of poll
\* outcomes: every loop iteration that does not return adds at least 10
\* seconds to the elapsed counter, the number of status requests issued for
\* one Job is at most max_wait_minutes*60/10, and a Job that is waiting
\* eventually leaves the loop.
C26_WaitTerminates ==
    /\ [](status_requests <= MaxStatusRequests)
    /\ [][(StatusRequestIssued /\ jpc' = "wait") =>
              elapsed_time' >= elapsed_time + check_interval]_vars
    /\ (jpc = "wait") ~> (jpc # "wait")

\* C26 witness: a Job whose polls were not all pending issued the largest
\* number of status requests its deadline allows.
C26_Witness ==
    /\ exit_kind = "timeout"
    /\ ~all_pending
    /\ max_wait_minutes >= 2
    /\ status_requests = MaxStatusRequests

\* every one of the last 5 status requests raised
LastFiveErrored ==
    /\ Len(recent_polls) = MaxConsecutiveFailures
    /\ \A i \in 1..Len(recent_polls) : recent_polls[i] = "error"

\* C27: the consecutive-failure counter is between 0 and 4 at every loop
\* head, increases by one on each erroring status request and is reset to
\* 0 by every status request that reports a non-terminal status; the loop
\* gives up with a polling error only when the last 5 status requests all
\* raised, and a Job whose errors are always separated by a pending poll
\* never ends by polling error.
C27_FailureCounter ==
    /\ [](jpc = "wait" => consecutive_failures \in 0..4)
    /\ [](exit_kind = "polling_error" => LastFiveErrored)
    /\ [](errors_separated => exit_kind # "polling_error")
    /\ [][/\ (StatusRequestIssued /\ last_poll' = "error") =>
                 consecutive_failures' = consecutive_failures + 1
          /\ (StatusRequestIssued /\ last_poll' = "pending") =>
                 consecutive_failures' = 0]_vars

\* C27 witness: a Job that met errors, each followed by a pending poll,
\* ended by timeout.
C27_Witness ==
    /\ exit_kind = "timeout"
    /\ errors_separated
    /\ Len(recent_polls) = MaxConsecutiveFailures
    /\ \E i \in 1..Len(recent_polls) : recent_polls[i] = "error"
    /\ \E i \in 1..Len(recent_polls) : recent_polls[i] = "pending"

\* the most a wait can carry the elapsed counter past the deadline: the
\* longest wait, begun one check_interval before the deadline
MaxOvershoot == MaxRetryDelay - check_interval

\* C28: whenever _wait_for_processing returns by timeout, the elapsed time
\* it has counted is at least max_wait_minutes*60 seconds and at most
\* max_wait_minutes*60 + 20 seconds.
C28_TimeoutElapsedBounds ==
    exit_kind = "timeout" =>
        /\ elapsed_time >= max_wait_seconds
        /\ elapsed_time <= max_wait_seconds + MaxOvershoot

\* C28 witness: a Job timed out with the largest overshoot, its last wait
\* being the 30-second backoff.
C28_Witness ==
    /\ exit_kind = "timeout"
    /\ last_wait = MaxRetryDelay
    /\ elapsed_time = max_wait_seconds + MaxOvershoot

-----------------------------------------------------------------------------
(* SubtitleGenerator._calculate_timeout (subtitle_generator.py 216-241).   *)
(* clip.duration is modelled in whole seconds, so duration_minutes is      *)
(* video_seconds / 60 and duration_minutes * 4 is video_seconds / 15.      *)

MaxVideoSeconds == 900

TimeoutPerMinute == 4
TimeoutBase == 5
MinTimeout == 10
MaxTimeout == 60
DefaultTimeout == 20

Max(a, b) == IF a > b THEN a ELSE b

\* line 234 with the floor of ten minutes left out
calculate_timeout_no_floor(secs) ==
    Min(MaxTimeout, ((secs * TimeoutPerMinute) \div 60) + TimeoutBase)

\* line 234: max(10, min(60, int(duration_minutes * 4) + 5)); int() truncates,
\* which on a non-negative number is the floor taken by \div
calculate_timeout(secs) ==
    Max(MinTimeout, Min(MaxTimeout, ((secs * TimeoutPerMinute) \div 60) + TimeoutBase))

TimeoutInit ==
    /\ video_seconds \in 0..MaxVideoSeconds
    /\ timeout_minutes = 0
    /\ tpc = "call"
    /\ IdleChunk /\ IdleSplit /\ IdleJob
    /\ IdlePipe /\ IdleTts /\ IdleTextPipe
    /\ IdleRest

\* lines 227-235: the duration is read and the timeout computed from it
ComputeTimeout ==
    /\ tpc = "call"
    /\ timeout_minutes' = calculate_timeout(video_seconds)
    /\ tpc' = "computed"
    /\ UNCHANGED <<video_seconds, chunkVars, splitVars, jobVars, pipeVars, ttsVars,
                   textPipeVars, restVars>>

\* lines 236-238: MoviePy could not be imported
MoviePyUnavailable ==
    /\ tpc = "call"
    /\ timeout_minutes' = DefaultTimeout
    /\ tpc' = "default"
    /\ UNCHANGED <<video_seconds, chunkVars, splitVars, jobVars, pipeVars, ttsVars,
                   textPipeVars, restVars>>

\* lines 239-241: opening the file or reading its duration raised
DurationError ==
    /\ tpc = "call"
    /\ timeout_minutes' = DefaultTimeout
    /\ tpc' = "default"
    /\ UNCHANGED <<video_seconds, chunkVars, splitVars, jobVars, pipeVars, ttsVars,
                   textPipeVars, restVars>>

TimeoutNext == ComputeTimeout \/ MoviePyUnavailable \/ DurationError

TimeoutSpec == TimeoutInit /\ [][TimeoutNext]_vars

\* clamp(d*4 + 5, 10, 60) minutes for d = video_seconds / 60, multiplied by 15
\* to stay in the integers: 15 * (4d + 5) = video_seconds + 75
Clamp15 == Max(15 * MinTimeout, Min(15 * MaxTimeout, video_seconds + 15 * TimeoutBase))

\* C11 (as stated): the timeout returned for a video of d minutes is exactly
\* clamp(4d + 5, 10, 60), also when 4d is not a whole number.
C11_TimeoutIsExactClamp ==
    tpc = "computed" => 15 * timeout_minutes = Clamp15

\* C11 (amended): when the duration was read, the timeout is the integer part
\* of clamp(4d + 5, 10, 60), which d determines; when it could not be read the
\* timeout is 20 minutes.
C11_TimeoutIsClampTruncated ==
    /\ tpc = "computed" =>
          /\ 15 * timeout_minutes <= Clamp15
          /\ Clamp15 < 15 * (timeout_minutes + 1)
    /\ tpc = "default" => timeout_minutes = DefaultTimeout

\* a 96 second video (1.6 minutes, 4d = 6.4) gets 11 minutes, not 11.4
C11_Witness ==
    /\ tpc = "computed"
    /\ video_seconds = 96
    /\ timeout_minutes = 11

-----------------------------------------------------------------------------
(* TTSGenerator._generate_long_audio (tts_generator.py 68-112) with        *)
(* _split_text_into_chunks (114-136) and _combine_audio_files (138-160).   *)
(* A temporary file temp_chunk_<i>.mp3 is named by its chunk index i.      *)

MaxTtsLen == 5
MaxTtsChars == 4

TtsTexts == UNION {StringsOfLen(n) : n \in 0..MaxTtsLen}

Range(f) == {f[i] : i \in DOMAIN f}

\* lines 122-130 with the sentence added to the chunk whether it fits or not
TtsSentenceStepNoLimit(st, sentence, max) ==
    [st EXCEPT !.current_chunk = st.current_chunk \o sentence \o SentenceSep]

\* lines 122-130: one sentence; st = [chunks, current_chunk]
TtsSentenceStep(st, sentence, max) ==
    IF Len(st.current_chunk \o sentence \o SentenceSep) <= max
    THEN [st EXCEPT !.current_chunk = st.current_chunk \o sentence \o SentenceSep]
    ELSE [chunks |-> IF st.current_chunk # <<>>
                     THEN Append(st.chunks, strip(st.current_chunk))
                     ELSE st.chunks,
          current_chunk |-> sentence \o SentenceSep]

RECURSIVE TtsSentenceLoop(_, _, _, _)
TtsSentenceLoop(sentences, i, st, max) ==
    IF i > Len(sentences) THEN st
    ELSE TtsSentenceLoop(sentences, i + 1, TtsSentenceStep(st, sentences[i], max), max)

\* lines 114-136
split_text_into_chunks(t, max) ==
    LET sentences == split(t, SentenceSep)
        st == TtsSentenceLoop(sentences, 1, [chunks |-> <<>>, current_chunk |-> <<>>], max)
    IN IF st.current_chunk # <<>>
       THEN Append(st.chunks, strip(st.current_chunk))
       ELSE st.chunks

\* generate_audio line 44 hands over only a text longer than the limit the
\* chunks are cut to (50000 characters against max_chars = 40000)
TtsInit ==
    /\ text \in TtsTexts
    /\ max_chars \in 1..MaxTtsChars
    /\ Len(text) > max_chars
    /\ tts_chunks = <<>>
    /\ audio_files = <<>>
    /\ tts_disk = {}
    /\ tts_failed = {}
    /\ tts_ret = "unset"
    /\ tts_pc = "split"
    /\ max_chunk_size = 0 /\ chunks = <<>> /\ cpc = "off"
    /\ IdleSplit /\ IdleJob
    /\ IdleTimeout /\ IdlePipe /\ IdleTextPipe
    /\ IdleRest

\* lines 75-76
TtsSplit ==
    /\ tts_pc = "split"
    /\ tts_chunks' = split_text_into_chunks(text, max_chars)
    /\ tts_pc' = "loop"
    /\ UNCHANGED <<text, max_chars, audio_files, tts_disk, tts_failed, tts_ret,
                   max_chunk_size, chunks, cpc, splitVars, jobVars, timeoutVars,
                   pipeVars, textPipeVars, restVars>>

\* the index i of the loop of line 78
TtsIndex == Len(audio_files) + 1

\* lines 78-94: the speech of chunk i is generated and written to its file
ConvertOk ==
    /\ tts_pc = "loop"
    /\ TtsIndex <= Len(tts_chunks)
    /\ audio_files' = Append(audio_files, TtsIndex)
    /\ tts_disk' = tts_disk \cup {TtsIndex}
    /\ UNCHANGED <<text, max_chars, tts_chunks, tts_failed, tts_ret, tts_pc,
                   max_chunk_size, chunks, cpc, splitVars, jobVars, timeoutVars,
                   pipeVars, textPipeVars, restVars>>

\* lines 81-87, 96-102: the speech request of chunk i raises; the files made
\* so far are removed and the run returns None
ConvertFail ==
    /\ tts_pc = "loop"
    /\ TtsIndex <= Len(tts_chunks)
    /\ tts_failed' = tts_failed \cup {TtsIndex}
    /\ tts_disk' = tts_disk \ Range(audio_files)
    /\ tts_ret' = "None"
    /\ tts_pc' = "returned"
    /\ UNCHANGED <<text, max_chars, tts_chunks, audio_files,
                   max_chunk_size, chunks, cpc, splitVars, jobVars, timeoutVars,
                   pipeVars, textPipeVars, restVars>>

\* lines 89-91, 96-102: the audio stream raises while the file of chunk i is
\* being written; that file is not in audio_files and stays on disk
StreamFail ==
    /\ tts_pc = "loop"
    /\ TtsIndex <= Len(tts_chunks)
    /\ tts_failed' = tts_failed \cup {TtsIndex}
    /\ tts_disk' = (tts_disk \cup {TtsIndex}) \ Range(audio_files)
    /\ tts_ret' = "None"
    /\ tts_pc' = "returned"
    /\ UNCHANGED <<text, max_chars, tts_chunks, audio_files,
                   max_chunk_size, chunks, cpc, splitVars, jobVars, timeoutVars,
                   pipeVars, textPipeVars, restVars>>

\* lines 105-112, 138-156: every chunk has its file; they are combined
CombineOk ==
    /\ tts_pc = "loop"
    /\ TtsIndex > Len(tts_chunks)
    /\ tts_disk' = tts_disk \ Range(audio_files)
    /\ tts_ret' = "combined_file"
    /\ tts_pc' = "returned"
    /\ UNCHANGED <<text, max_chars, tts_chunks, audio_files, tts_failed,
                   max_chunk_size, chunks, cpc, splitVars, jobVars, timeoutVars,
                   pipeVars, textPipeVars, restVars>>

\* lines 105-112, 158-160: combining raises and _combine_audio_files returns None
CombineFail ==
    /\ tts_pc = "loop"
    /\ TtsIndex > Len(tts_chunks)
    /\ tts_disk' = tts_disk \ Range(audio_files)
    /\ tts_ret' = "None"
    /\ tts_pc' = "returned"
    /\ UNCHANGED <<text, max_chars, tts_chunks, audio_files, tts_failed,
                   max_chunk_size, chunks, cpc, splitVars, jobVars, timeoutVars,
                   pipeVars, textPipeVars, restVars>>

TtsNext ==
    \/ TtsSplit \/ ConvertOk \/ ConvertFail \/ StreamFail \/ CombineOk \/ CombineFail

TtsSpec == TtsInit /\ [][TtsNext]_vars

\* C13: in a chunked run a chunk whose remote call failed does not abort the
\* run: every chunk is still processed and the run returns a final artifact.
\* Stated for the speech pipeline, on a text cut into several chunks.
C13_ChunkFailureNeverAborts ==
    (tts_pc = "returned" /\ tts_failed # {} /\ Len(tts_chunks) > 1) =>
        /\ tts_ret # "None"
        /\ Len(audio_files) = Len(tts_chunks)

\* C22: joining the chunks of _split_text_into_chunks in order with a single
\* space reproduces the text exactly, no character added and none removed.
C22_TtsSplitRoundTrip ==
    tts_pc # "split" =>
        JoinWith(tts_chunks, [i \in 1..(Len(tts_chunks) - 1) |-> <<" ">>]) = text

C29_NoTempFileLeft ==
    tts_pc = "returned" => tts_disk = {}

-----------------------------------------------------------------------------
(* SubtitleGenerator._add_subtitles_chunked as a whole (subtitle_generator *)
(* .py 114-204): the splitting loop above, then one Job per chunk run by   *)
(* _add_subtitles_single, then the merge, with the cleanup of the finally  *)
(* clause. Chunks are numbered from 0 as in the code; chunk_state[i + 1]   *)
(* is the state of chunk i.                                                *)

MaxPipeChunks == 3

\* what an except clause is asked to handle
Exceptions == {"Exception", "KeyboardInterrupt"}

\* a bare except clause in place of line 110
BareExcept(exc) == exc \in Exceptions

\* line 110: except Exception does not catch KeyboardInterrupt, which derives
\* from BaseException
ExceptException(exc) == exc = "Exception"

\* line 164 returning as soon as the Job is submitted
JobSubmitted == jpc \in {"wait", "download", "returned"}

\* line 164: the call of _add_subtitles_single has returned
JobTerminal == jpc = "returned"

\* the Job has been started and has not returned
InFlight == jpc \in {"upload", "create_task", "wait", "download"}

\* lines 165-171 appending the name of the subtitled file whatever the result
ChunkResultNoFallback(i) == [kind |-> "subtitled", index |-> i]

\* lines 165-171: the file appended to successful_chunks for chunk i
ChunkResult(i) ==
    IF single_ret = "output_file"
    THEN [kind |-> "subtitled", index |-> i]
    ELSE [kind |-> "original", index |-> i]

\* line 161 ending the loop after the first chunk
LoopDoneEarly == cidx >= 1

\* line 161: zip(chunk_files, subtitled_chunk_files) is exhausted
LoopDone == cidx >= Len(segments)

\* add_subtitles line 66 hands over only a video longer than the limit
\* (300 seconds against chunk_duration = 180), here longer than one chunk
PipeInit ==
    /\ duration \in 1..MaxDuration
    /\ chunk_duration \in 1..MaxChunkDuration
    /\ duration > chunk_duration
    /\ NumChunks(duration, chunk_duration) <= MaxPipeChunks
    /\ num_chunks = 0
    /\ segments = <<>>
    /\ spc = "start"
    /\ ppc = "split"
    /\ cidx = 0
    /\ chunk_state = <<>>
    /\ successful_chunks = <<>>
    /\ temp_dir = TRUE
    /\ merge_input = <<>>
    /\ chunked_ret = "unset"
    /\ cancelled = FALSE
    /\ IdleJob
    /\ IdleChunk /\ IdleTimeout /\ IdleTts /\ IdleTextPipe
    /\ IdleRest

\* the variables of one Job back to their values before the call
JobReset ==
    /\ elapsed_time' = 0
    /\ consecutive_failures' = 0
    /\ wait_ret' = "unset"
    /\ single_ret' = "unset"
    /\ exit_kind' = "none"
    /\ status_requests' = 0
    /\ last_poll' = "none"
    /\ last_wait' = 0
    /\ all_pending' = TRUE
    /\ upload_requests' = 0
    /\ task_requests' = 0
    /\ download_requests' = 0
    /\ errors_separated' = TRUE
    /\ recent_polls' = <<>>
    /\ UNCHANGED prev_job

\* lines 198-204: the finally clause removes the temporary directory
CleanupTempFiles == temp_dir' = FALSE

\* lines 202-214 while chunk files are still open: shutil.rmtree removes
\* the directory, or raises (an open file cannot be deleted on Windows) and
\* lines 213-214 print the error and leave the directory in place
CleanupTempFilesOpen == temp_dir' \in BOOLEAN

\* lines 127-157, 198-204: opening the video or writing a chunk file raises
SplitFail ==
    /\ ppc = "split"
    /\ spc \in {"start", "split"}
    /\ spc' = "failed"
    /\ ppc' = "returned"
    /\ chunked_ret' = "None"
    /\ CleanupTempFiles
    /\ UNCHANGED <<duration, chunk_duration, num_chunks, segments, cidx, chunk_state,
                   successful_chunks, merge_input, cancelled, chunkVars, jobVars,
                   timeoutVars, ttsVars, textPipeVars, restVars>>

\* lines 159-160: the chunk files are written, step 2 begins
BeginProcessing ==
    /\ ppc = "split"
    /\ spc = "done"
    /\ ppc' = "process"
    /\ cidx' = 0
    /\ chunk_state' = [i \in 1..Len(segments) |-> "todo"]
    /\ successful_chunks' = <<>>
    /\ UNCHANGED <<temp_dir, merge_input, chunked_ret, cancelled, chunkVars, splitVars,
                   jobVars, timeoutVars, ttsVars, textPipeVars, restVars>>

\* lines 161-164, 84: _add_subtitles_single is called for chunk cidx
StartChunkJob ==
    /\ ppc = "process"
    /\ jpc = "off"
    /\ ~LoopDone
    /\ jpc' = "upload"
    /\ max_wait_minutes' \in 1..MaxWaitMinutes
    /\ JobReset
    /\ chunk_state' = [chunk_state EXCEPT ![cidx + 1] = "inflight"]
    /\ UNCHANGED <<ppc, cidx, successful_chunks, temp_dir, merge_input, chunked_ret,
                   cancelled, chunkVars, splitVars, timeoutVars, ttsVars, textPipeVars, restVars>>

\* lines 164-171: the call has returned; its result or the original chunk
\* file is appended and the loop moves to the next chunk. A chunk stays in
\* flight until its Job has returned.
FinishChunkJob ==
    /\ ppc = "process"
    /\ JobTerminal
    /\ successful_chunks' = Append(successful_chunks, ChunkResult(cidx))
    /\ chunk_state' = [chunk_state EXCEPT ![cidx + 1] =
                          IF jpc = "returned" THEN ChunkResult(cidx).kind ELSE @]
    /\ cidx' = cidx + 1
    /\ jpc' = "off"
    /\ max_wait_minutes' = 0
    /\ JobReset
    /\ UNCHANGED <<ppc, temp_dir, merge_input, chunked_ret, cancelled, chunkVars,
                   splitVars, timeoutVars, ttsVars, textPipeVars, restVars>>

\* line 161, 173-174: the loop over the chunks ends, step 3 begins
EndProcessing ==
    /\ ppc = "process"
    /\ jpc = "off"
    /\ LoopDone
    /\ ppc' = "merge"
    /\ UNCHANGED <<cidx, chunk_state, successful_chunks, temp_dir, merge_input,
                   chunked_ret, cancelled, chunkVars, splitVars, jobVars, timeoutVars,
                   ttsVars, textPipeVars, restVars>>

\* lines 176-196, 202-204: the files of successful_chunks are concatenated
MergeOk ==
    /\ ppc = "merge"
    /\ merge_input' = successful_chunks
    /\ chunked_ret' = "output_file"
    /\ ppc' = "returned"
    /\ CleanupTempFiles
    /\ UNCHANGED <<cidx, chunk_state, successful_chunks, cancelled, chunkVars,
                   splitVars, jobVars, timeoutVars, ttsVars, textPipeVars, restVars>>

\* lines 176-178, 198-204: opening the first chunk file raises
MergeFail ==
    /\ ppc = "merge"
    /\ merge_input' = successful_chunks
    /\ chunked_ret' = "None"
    /\ ppc' = "returned"
    /\ CleanupTempFiles
    /\ UNCHANGED <<cidx, chunk_state, successful_chunks, cancelled, chunkVars,
                   splitVars, jobVars, timeoutVars, ttsVars, textPipeVars, restVars>>

\* lines 176-188, 198-214: opening a later chunk file, concatenating or
\* writing the output raises. The clips opened on line 178 are closed only
\* on lines 191-193, which the exception skips: they are open when the
\* finally clause removes the directory.
MergeFailClipsOpen ==
    /\ ppc = "merge"
    /\ merge_input' = successful_chunks
    /\ chunked_ret' = "None"
    /\ ppc' = "returned"
    /\ clips_open' = TRUE
    /\ CleanupTempFilesOpen
    /\ UNCHANGED <<cidx, chunk_state, successful_chunks, cancelled, chunkVars,
                   splitVars, jobVars, timeoutVars, ttsVars, textPipeVars,
                   routeVars, descVars>>

\* An exception reaches the handler of _add_subtitles_single (line 110)
\* while the Job of a chunk is in flight: an Exception the helper did not
\* handle itself, or the KeyboardInterrupt of the caller cancelling the run.
\* What line 110 catches makes the Job return None (lines 111-112); what it
\* does not catch leaves _add_subtitles_chunked through its finally clause
\* (line 198 does not catch it either) and reaches main.py 267.
JobRaises ==
    /\ ppc = "process"
    /\ InFlight
    /\ \E exc \in Exceptions :
         /\ cancelled' = (cancelled \/ exc = "KeyboardInterrupt")
         /\ IF ExceptException(exc)
            THEN /\ Return("exception", wait_ret, "None")
                 /\ UNCHANGED <<ppc, chunked_ret, temp_dir>>
            ELSE /\ jpc' = "interrupted"
                 /\ exit_kind' = "interrupted"
                 /\ UNCHANGED <<wait_ret, single_ret>>
                 /\ ppc' = "returned"
                 /\ chunked_ret' = "raised"
                 /\ CleanupTempFiles
    /\ UNCHANGED <<max_wait_minutes, elapsed_time, consecutive_failures,
                   status_requests, last_poll, last_wait, all_pending, prev_job,
                   reqVars, histVars, cidx, chunk_state, successful_chunks,
                   merge_input,
                   chunkVars, splitVars, timeoutVars, ttsVars, textPipeVars, restVars>>

PipeNext ==
    \/ OpenVideo \/ CutChunk \/ SplitDone \/ SplitFail
    \/ BeginProcessing \/ StartChunkJob \/ FinishChunkJob \/ EndProcessing
    \/ UploadOk \/ UploadFail \/ CreateTaskOk \/ CreateTaskFail
    \/ PollCompleted \/ PollCompletedNoUrl \/ PollFailed \/ PollPending
    \/ PollError \/ WaitTimeout \/ DownloadOk \/ DownloadFail \/ JobRaises
    \/ MergeOk \/ MergeFail \/ MergeFailClipsOpen

PipeSpec == PipeInit /\ [][PipeNext]_vars

-----------------------------------------------------------------------------
(* Properties of the chunked subtitle run *)

\* the chunks whose Job is submitted and has not returned
ChunksInFlight == {i \in DOMAIN chunk_state : chunk_state[i] = "inflight"}

\* the chunks for which the original chunk file was substituted
ChunksFellBack == {i \in DOMAIN chunk_state : chunk_state[i] = "original"}

\* line 164 is a blocking call: one Job at a time
ConcurrencyBound == 1

\* C14: a chunked subtitle run in which some chunk fell back to its original
\* file does not return the value a run with every chunk subtitled returns
\* (the name of the output file).
C14_FallbackDistinguished ==
    (ppc = "returned" /\ ChunksFellBack # {}) => chunked_ret # "output_file"

\* C15: when the Job of chunk i has returned a failure of any kind, the
\* loop appends the original file of chunk i as entry i of the list for the
\* merge and goes on to chunk i + 1.
C15_FailedChunkFallsBack ==
    [][(ppc = "process" /\ jpc = "returned" /\ exit_kind # "completed"
            /\ jpc' # "returned") =>
          /\ Len(successful_chunks) = cidx
          /\ successful_chunks' =
                 Append(successful_chunks, [kind |-> "original", index |-> cidx])
          /\ cidx' = cidx + 1
          /\ ppc' = "process"
          /\ jpc' = "off"]_vars

\* C15 witness: chunk 0 fell back, and chunk 1 was then processed and
\* subtitled.
C15_Witness ==
    /\ Len(successful_chunks) = 2
    /\ successful_chunks[1] = [kind |-> "original", index |-> 0]
    /\ successful_chunks[2] = [kind |-> "subtitled", index |-> 1]

\* C16: a run in which the Job of every chunk failed is reported as failed
\* (None), not as a usable artifact.
C16_AllFailedIsFailed ==
    (ppc = "returned" /\ chunk_state # <<>>
        /\ ChunksFellBack = DOMAIN chunk_state) => chunked_ret = "None"

\* C17: the list handed to the merge has one entry per chunk, entry i made
\* from chunk i (its subtitled file or its original file), indices 0..N-1 in
\* ascending order, and the merge starts only once every Job has returned.
C17_MergeListComplete ==
    (ppc = "merge" \/ merge_input # <<>>) =>
        /\ Len(successful_chunks) = NumChunks(duration, chunk_duration)
        /\ Len(successful_chunks) = Len(segments)
        /\ \A i \in DOMAIN successful_chunks :
              /\ successful_chunks[i].index = i - 1
              /\ successful_chunks[i].kind \in {"subtitled", "original"}
              /\ chunk_state[i] = successful_chunks[i].kind
        /\ ~InFlight
        /\ ChunksInFlight = {}
        /\ merge_input \in {<<>>, successful_chunks}

\* C17 witness: three chunks merged, the middle one as its original file.
C17_Witness ==
    /\ chunked_ret = "output_file"
    /\ merge_input = <<[kind |-> "subtitled", index |-> 0],
                       [kind |-> "original", index |-> 1],
                       [kind |-> "subtitled", index |-> 2]>>

C20_OneJobInFlight ==
    /\ Cardinality(ChunksInFlight) <= ConcurrencyBound
    /\ \A i \in ChunksInFlight :
          /\ \A j \in 1..(i - 1) : chunk_state[j] \in {"subtitled", "original"}
          /\ \A j \in (i + 1)..Len(chunk_state) : chunk_state[j] = "todo"
    /\ InFlight => chunk_state[cidx + 1] = "inflight"

\* C20 witness: the Job of the second of three chunks is being polled.
C20_Witness ==
    /\ chunk_state = <<"subtitled", "inflight", "todo">>
    /\ jpc = "wait"
    /\ status_requests >= 1

\* C30: on every exit path of _add_subtitles_chunked after the temporary
\* directory is created, the directory and the chunk files in it have been
\* removed when the function returns.
C30_TempDirRemovedOnExit ==
    ppc = "returned" => temp_dir = FALSE

-----------------------------------------------------------------------------
(* TextProcessor._process_text_in_chunks (text_processor.py 168-200). The  *)
(* title extracted on line 171 is not used afterwards and                  *)
(* _extract_title handles its own errors, so it leaves no trace here.      *)

MaxPipeTextLen == 4

\* the characters of a post: those of Alphabet and a markdown marker
PipeAlphabet == Alphabet \cup {"*"}

RECURSIVE PipeStringsOfLen(_)
PipeStringsOfLen(n) ==
    IF n = 0 THEN {<<>>}
    ELSE {Append(s, c) : s \in PipeStringsOfLen(n - 1), c \in PipeAlphabet}

PipeTexts == UNION {PipeStringsOfLen(n) : n \in 0..MaxPipeTextLen}

\* what the rewriting service may answer for a chunk
Responses == {<<>>, <<"a">>, <<"a", ".">>, <<" ", "a", NL>>, <<"a", NL, NL, "a">>}

\* str.replace(old, '')
RECURSIVE RemoveAll(_, _)
RemoveAll(s, old) ==
    IF s = <<>> THEN <<>>
    ELSE IF StartsWith(s, old) THEN RemoveAll(Drop(s, Len(old)), old)
    ELSE <<s[1]>> \o RemoveAll(Drop(s, 1), old)

\* str.split() without a separator: the words between runs of whitespace
RECURSIVE WordsFrom(_, _)
WordsFrom(s, word) ==
    IF s = <<>> THEN (IF word = <<>> THEN <<>> ELSE <<word>>)
    ELSE IF s[1] \in Whitespace
         THEN (IF word = <<>> THEN <<>> ELSE <<word>>) \o WordsFrom(Drop(s, 1), <<>>)
         ELSE WordsFrom(Drop(s, 1), Append(word, s[1]))

\* str.join with every separator left out
RECURSIVE join_no_sep(_, _)
join_no_sep(sep, parts) ==
    IF parts = <<>> THEN <<>> ELSE Head(parts) \o join_no_sep(sep, Tail(parts))

\* sep.join(parts)
RECURSIVE join(_, _)
join(sep, parts) ==
    IF parts = <<>> THEN <<>>
    ELSE IF Len(parts) = 1 THEN parts[1]
    ELSE parts[1] \o sep \o join(sep, Tail(parts))

\* line 191 appending the chunk as it is
no_cleanup(t) == t

\* lines 257-271
basic_text_cleanup(t) ==
    LET c1 == RemoveAll(t, <<"*", "*">>)
        c2 == RemoveAll(c1, <<"*">>)
        c3 == RemoveAll(c2, <<"#">>)
        c4 == RemoveAll(c3, <<"&", "g", "t", ";">>)
        c5 == RemoveAll(c4, <<"&", "l", "t", ";">>)
    IN join(<<" ">>, WordsFrom(c5, <<>>))

\* process_text_for_narration line 92 hands over only a text above the token
\* limit (3000 tokens against max_chunk_size = 2500)
TextPipeInit ==
    /\ text \in PipeTexts
    /\ max_chunk_size \in 1..MaxLimit
    /\ count_tokens(text) > max_chunk_size
    /\ chunks = <<>>
    /\ cpc = "call"
    /\ processed_chunks = <<>>
    /\ text_fell_back = {}
    /\ final_text = <<>>
    /\ xpc = "loop"
    /\ IdleSplit /\ IdleJob
    /\ IdleTimeout /\ IdlePipe /\ IdleTts
    /\ IdleRest

\* the index i of the loop of line 178, counted from 1
TextIndex == Len(processed_chunks) + 1

\* lines 178-187, 157, 255: the service answers and the stripped answer is
\* appended
ProcessOk ==
    /\ cpc = "returned"
    /\ xpc = "loop"
    /\ TextIndex <= Len(chunks)
    /\ \E r \in Responses : processed_chunks' = Append(processed_chunks, strip(r))
    /\ UNCHANGED <<text_fell_back, final_text, xpc, chunkVars, splitVars, jobVars,
                   timeoutVars, pipeVars, ttsVars, restVars>>

\* lines 188-191: the request raises and the cleaned-up chunk is appended
ProcessFail ==
    /\ cpc = "returned"
    /\ xpc = "loop"
    /\ TextIndex <= Len(chunks)
    /\ processed_chunks' = Append(processed_chunks, basic_text_cleanup(chunks[TextIndex]))
    /\ text_fell_back' = text_fell_back \cup {TextIndex}
    /\ UNCHANGED <<final_text, xpc, chunkVars, splitVars, jobVars, timeoutVars,
                   pipeVars, ttsVars, restVars>>

\* lines 193-200
JoinChunks ==
    /\ cpc = "returned"
    /\ xpc = "loop"
    /\ TextIndex > Len(chunks)
    /\ final_text' = join(ParagraphSep, processed_chunks)
    /\ xpc' = "returned"
    /\ UNCHANGED <<processed_chunks, text_fell_back, chunkVars, splitVars, jobVars,
                   timeoutVars, pipeVars, ttsVars, restVars>>

TextPipeNext == ChunkText \/ ProcessOk \/ ProcessFail \/ JoinChunks

TextPipeSpec == TextPipeInit /\ [][TextPipeNext]_vars

\* parts in the order given by the permutation perm of its indices
Reordered(parts, perm) == [i \in DOMAIN parts |-> parts[perm[i]]]

\* position in the joined text of the first character of output i
RECURSIVE Offset(_, _)
Offset(parts, i) ==
    IF i = 1 THEN 1
    ELSE Offset(parts, i - 1) + Len(parts[i - 1]) + Len(ParagraphSep)

\* C18 (as stated): the reassembled text does not depend on the order in
\* which the outputs are supplied: joining them in any other order gives the
\* same text.
C18_OrderIndependent ==
    xpc = "returned" =>
        \A perm \in Permutations(DOMAIN processed_chunks) :
            join(ParagraphSep, Reordered(processed_chunks, perm)) = final_text

\* C18 (amended): there is one output per chunk, output i being the service's
\* stripped answer or the cleaned-up chunk i, and the reassembled text is
\* these outputs in ascending chunk index with exactly "\n\n" between
\* consecutive outputs and nothing else.
C18_JoinedInIndexOrder ==
    xpc = "returned" =>
        /\ Len(processed_chunks) = Len(chunks)
        /\ Len(final_text) =
              IF processed_chunks = <<>> THEN 0
              ELSE Offset(processed_chunks, Len(processed_chunks))
                       + Len(processed_chunks[Len(processed_chunks)]) - 1
        /\ \A i \in DOMAIN processed_chunks :
              /\ i \in text_fell_back =>
                    processed_chunks[i] = basic_text_cleanup(chunks[i])
              /\ i \notin text_fell_back =>
                    processed_chunks[i] \in {strip(r) : r \in Responses}
              /\ SubSeq(final_text, Offset(processed_chunks, i),
                        Offset(processed_chunks, i) + Len(processed_chunks[i]) - 1)
                     = processed_chunks[i]
              /\ i < Len(processed_chunks) =>
                    SubSeq(final_text,
                           Offset(processed_chunks, i) + Len(processed_chunks[i]),
                           Offset(processed_chunks, i + 1) - 1) = ParagraphSep

\* C18 witness: two chunks with different outputs, one of them a fallback,
\* were joined.
C18_Witness ==
    /\ xpc = "returned"
    /\ Len(processed_chunks) = 2
    /\ processed_chunks[1] # processed_chunks[2]
    /\ text_fell_back = {2}
    /\ final_text = processed_chunks[1] \o <<NL, NL>> \o processed_chunks[2]

\* the characters _basic_text_cleanup removes one by one
Markup == {"*", "#"}

IsNotMarkup(c) == c \notin Markup

-----------------------------------------------------------------------------
(* The choice between the single and the chunked path:                     *)
(* TextProcessor.process_text_for_narration (text_processor.py 71-102),    *)
(* TTSGenerator.generate_audio (tts_generator.py 23-66) and                *)
(* SubtitleGenerator.add_subtitles (subtitle_generator.py 34-76). A unit   *)
(* is represented by its kind and its size: tokens of a text, characters   *)
(* of a text to speak, seconds of a video. A text is empty exactly when    *)
(* its size is 0.                                                          *)

MaxUnitDelta == 5

TextTokenLimit == 3000
SpeechCharLimit == 50000
VideoSecondsLimit == 300

UnitKinds == {"text", "speech", "video"}

\* text_processor.py 92, tts_generator.py 44, subtitle_generator.py 66
Limit(kind) ==
    CASE kind = "text" -> TextTokenLimit
      [] kind = "speech" -> SpeechCharLimit
      [] kind = "video" -> VideoSecondsLimit

\* sizes near zero and on both sides of the limit
Sizes(kind) ==
    (0..MaxUnitDelta) \cup ((Limit(kind) - MaxUnitDelta)..(Limit(kind) + MaxUnitDelta))

\* the comparisons taken as >=
ExceedsLimitInclusive(size, limit) == size >= limit

\* input_tokens > 3000, len(text) > 50000, duration > 300
ExceedsLimit(size, limit) == size > limit

RouteInit ==
    /\ unit_kind \in UnitKinds
    /\ unit_size \in Sizes(unit_kind)
    /\ unit_ok \in (IF unit_kind = "video" THEN BOOLEAN ELSE {TRUE})
    /\ moviepy_available \in (IF unit_kind = "video" THEN BOOLEAN ELSE {TRUE})
    /\ route = "undecided"
    /\ remote_jobs = 0
    /\ chunker_invoked = FALSE
    /\ IdleChunk /\ IdleSplit /\ IdleJob
    /\ IdleTimeout /\ IdlePipe /\ IdleTts /\ IdleTextPipe
    /\ IdleDesc /\ clips_open = FALSE

\* text_processor.py 83-84, tts_generator.py 35-37: nothing to process
RejectEmpty ==
    /\ route = "undecided"
    /\ unit_kind \in {"text", "speech"}
    /\ unit_size = 0
    /\ route' = "empty"
    /\ UNCHANGED <<unit_kind, unit_size, unit_ok, moviepy_available, remote_jobs,
                   chunker_invoked, descVars, clips_open, chunkVars, splitVars,
                   jobVars, timeoutVars, pipeVars, ttsVars, textPipeVars>>

\* subtitle_generator.py 47-53: the file is missing or the API key is not set
RejectVideo ==
    /\ route = "undecided"
    /\ unit_kind = "video"
    /\ ~unit_ok
    /\ route' = "rejected"
    /\ UNCHANGED <<unit_kind, unit_size, unit_ok, moviepy_available, remote_jobs,
                   chunker_invoked, descVars, clips_open, chunkVars, splitVars,
                   jobVars, timeoutVars, pipeVars, ttsVars, textPipeVars>>

\* the unit gets past the checks made before its size is looked at
Admitted ==
    /\ route = "undecided"
    /\ unit_kind \in {"text", "speech"} => unit_size > 0
    /\ unit_kind = "video" => unit_ok

\* text_processor.py 88, 99-102: counting the tokens raises and the cleaned-up
\* text is returned; subtitle_generator.py 62-63, 74-76: reading the duration
\* raises and None is returned
MeasureFails ==
    /\ Admitted
    /\ \/ unit_kind = "text"
       \/ unit_kind = "video" /\ moviepy_available
    /\ route' = "unmeasured"
    /\ UNCHANGED <<unit_kind, unit_size, unit_ok, moviepy_available, remote_jobs,
                   chunker_invoked, descVars, clips_open, chunkVars, splitVars,
                   jobVars, timeoutVars, pipeVars, ttsVars, textPipeVars>>

\* text_processor.py 92-94, tts_generator.py 44-45, subtitle_generator.py
\* 61-68: the chunked path is entered
RouteChunked ==
    /\ Admitted
    /\ unit_kind = "video" => moviepy_available
    /\ ExceedsLimit(unit_size, Limit(unit_kind))
    /\ route' = "chunked"
    /\ chunker_invoked' = TRUE
    /\ UNCHANGED <<unit_kind, unit_size, unit_ok, moviepy_available, remote_jobs,
                   descVars, clips_open, chunkVars, splitVars, jobVars, timeoutVars,
                   pipeVars, ttsVars, textPipeVars>>

\* text_processor.py 97, tts_generator.py 48-54, subtitle_generator.py
\* 70-72: the unit is handed whole to one remote job; a video whose duration
\* is not looked at (MoviePy missing) comes here whatever its length
RouteSingle ==
    /\ Admitted
    /\ \/ ~ExceedsLimit(unit_size, Limit(unit_kind))
       \/ unit_kind = "video" /\ ~moviepy_available
    /\ route' = "single"
    /\ remote_jobs' = remote_jobs + 1
    /\ UNCHANGED <<unit_kind, unit_size, unit_ok, moviepy_available, chunker_invoked,
                   descVars, clips_open, chunkVars, splitVars, jobVars, timeoutVars,
                   pipeVars, ttsVars, textPipeVars>>

RouteNext == RejectEmpty \/ RejectVideo \/ MeasureFails \/ RouteChunked \/ RouteSingle

RouteSpec == RouteInit /\ [][RouteNext]_vars

\* C21 (as stated): a unit goes through the chunked path if and only if its
\* size is strictly above the limit, and a unit at or under the limit is
\* processed by exactly one remote job without the chunker.
C21_ChunkedIffOverLimit ==
    route # "undecided" =>
        /\ chunker_invoked <=> unit_size > Limit(unit_kind)
        /\ unit_size <= Limit(unit_kind) => (route = "single" /\ remote_jobs = 1)

\* C21 (amended): the chunked path is entered only above the limit; the
\* single path starts exactly one remote job and no chunker; for a unit that
\* is admitted and measured the path is the chunked one if and only if the
\* size is strictly above the limit; an empty text, a rejected video and a
\* unit that cannot be measured start no remote job and no chunker, and a
\* video is sent whole to one Job whatever its length when MoviePy is missing.
C21_ChunkedOnlyOverLimit ==
    /\ chunker_invoked <=> route = "chunked"
    /\ route = "chunked" =>
          /\ unit_size > Limit(unit_kind)
          /\ remote_jobs = 0
    /\ route = "single" =>
          /\ remote_jobs = 1
          /\ \/ unit_size <= Limit(unit_kind)
             \/ unit_kind = "video" /\ ~moviepy_available
    /\ (route \in {"single", "chunked"} /\ moviepy_available) =>
          (route = "chunked" <=> unit_size > Limit(unit_kind))
    /\ route = "empty" => (unit_size = 0 /\ unit_kind # "video" /\ remote_jobs = 0)
    /\ route = "rejected" => (unit_kind = "video" /\ ~unit_ok /\ remote_jobs = 0)
    /\ route = "unmeasured" => (unit_kind # "speech" /\ remote_jobs = 0)

\* C21 witness: a text of exactly 3000 tokens went to one remote job.
C21_Witness ==
    /\ unit_kind = "text"
    /\ unit_size = TextTokenLimit
    /\ route = "single"
    /\ remote_jobs = 1
    /\ ~chunker_invoked

-----------------------------------------------------------------------------
(* TikTokUploader._create_description (tiktok_uploader.py 56-91). Only the *)
(* length of the description matters to the function, so the description   *)
(* is represented by its length; a hashtag is a string.                    *)

MaxDescLen == 2250
MaxGivenTags == 2

DescriptionLimit == 2200
MaxHashtags == 10
DefaultDescriptionLen == 29
EllipsisLen == 3
BlankLineLen == 2
TrimAllowance == 3

\* the hashtags a caller may pass; "reddit" is also a default hashtag
GivenTags == {"reddit", "cats", "aita"}

RECURSIVE TagListsOfLen(_)
TagListsOfLen(n) ==
    IF n = 0 THEN {<<>>}
    ELSE {Append(l, t) : l \in TagListsOfLen(n - 1), t \in GivenTags}

TagLists == UNION {TagListsOfLen(n) : n \in 0..MaxGivenTags}

\* lines 64-67
default_hashtags ==
    <<"reddit", "redditstory", "storytelling", "viral",
      "fyp", "foryou", "storytime", "interesting">>

\* list(dict.fromkeys(l)): the first occurrence of each element, in order
RECURSIVE Unique(_)
Unique(l) ==
    IF l = <<>> THEN <<>>
    ELSE LET init == SubSeq(l, 1, Len(l) - 1)
             last == l[Len(l)]
         IN IF last \in Range(init) THEN Unique(init)
            ELSE Append(Unique(init), last)

\* lines 70-76
unique_hashtags(given) ==
    LET all_hashtags == IF given # <<>> THEN given \o default_hashtags
                        ELSE default_hashtags
        unique == Unique(all_hashtags)
    IN SubSeq(unique, 1, Min(MaxHashtags, Len(unique)))

\* line 79: len(' '.join([f'#{tag}' for tag in tags]))
RECURSIVE HashtagStringLen(_)
HashtagStringLen(tags) ==
    IF tags = <<>> THEN 0
    ELSE IF Len(tags) = 1 THEN 1 + Len(tags[1])
    ELSE 1 + Len(tags[1]) + 1 + HashtagStringLen(Tail(tags))

\* len(s[:m]) for a string of length n: a negative m counts from the end
SliceLen(n, m) == IF m >= 0 THEN Min(n, m) ELSE Max(0, n + m)

DescInit ==
    /\ desc_len \in 0..MaxDescLen
    /\ hashtags \in TagLists
    /\ full_len = 0
    /\ trimmed = FALSE
    /\ dpc = "call"
    /\ IdleChunk /\ IdleSplit /\ IdleJob
    /\ IdleTimeout /\ IdlePipe /\ IdleTts /\ IdleTextPipe
    /\ IdleRoute /\ clips_open = FALSE

\* lines 56-91
CreateDescription ==
    /\ dpc = "call"
    /\ LET description_len == IF desc_len = 0 THEN DefaultDescriptionLen ELSE desc_len
           hashtag_len == HashtagStringLen(unique_hashtags(hashtags))
           full == description_len + BlankLineLen + hashtag_len
           max_desc_length == DescriptionLimit - hashtag_len - TrimAllowance
       IN IF full > DescriptionLimit
          THEN /\ full_len' = SliceLen(description_len, max_desc_length) + EllipsisLen
                                  + BlankLineLen + hashtag_len
               /\ trimmed' = TRUE
          ELSE /\ full_len' = full
               /\ trimmed' = FALSE
    /\ dpc' = "returned"
    /\ UNCHANGED <<desc_len, hashtags, routeVars, clips_open, chunkVars, splitVars,
                   jobVars, timeoutVars, pipeVars, ttsVars, textPipeVars>>

DescNext == CreateDescription

DescSpec == DescInit /\ [][DescNext]_vars

\* C25: the string returned by _create_description is at most 2200
\* characters long, also when the description was truncated and '...'
\* appended.
C25_DescriptionWithinLimit ==
    dpc = "returned" => full_len <= DescriptionLimit

=============================================================================
